---- MODULE Spec2Model ----
(***************************************************************************)
(* rs-pg-maintenance-analyze: the identifier validation and maintenance    *)
(* statement pipeline of src/src/lib.rs.                                   *)
(*                                                                         *)
(* A request (analyze_by_table_name or analyze_tables) validates each name *)
(* against information_schema.tables (PgTabChk::table_exists through the   *)
(* blanket TableNameChecker::check_table_name) and then issues             *)
(* "ANALYZE <name>" (PgAnalyze::analyze).  Every database round trip is an *)
(* await point, so one action of the model is one round trip together with *)
(* the code that consumes its answer.  The database is the environment:    *)
(* its catalog is a state variable that a concurrent actor may change      *)
(* between two round trips.                                                *)
(***************************************************************************)
EXTENDS Integers, Sequences, FiniteSets, TLC

VARIABLES catalog, search_path, pc, kind, schema, names, idx, checked, result, calls

vars == <<catalog, search_path, pc, kind, schema, names, idx, checked, result, calls>>

(***************************************************************************)
(* Bounds of the model.                                                    *)
(***************************************************************************)
\* Largest number of information_schema.tables rows matching one (schema, name).
MaxRows == 2
\* Longest `names` list handed to analyze_tables.
MaxNames == 3
\* Number of requests served concurrently.
NumReqs == 2

Schemas == {"public", "other"}
\* A name is a text: the sequence of its pieces, so that format! is concatenation.
Names == {<<"t1">>, <<"t2">>}
Reqs == 1..NumReqs
\* The requests of the specification with one request in flight.
SoloReqs == {1}

Cells == Schemas \X Names
Catalogs == [Cells -> 0..MaxRows]
\* Catalogs PostgreSQL keeps: (table_schema, table_name) is unique.
UniqueCatalogs == [Cells -> 0..1]

RECURSIVE SeqsUpTo(_, _)
SeqsUpTo(S, n) ==
    IF n = 0 THEN {<<>>}
    ELSE LET shorter == SeqsUpTo(S, n - 1)
         IN shorter \cup {Append(q, x) : q \in {p \in shorter : Len(p) = n - 1}, x \in S}

NameLists == SeqsUpTo(Names, MaxNames)

(***************************************************************************)
(* Values: Option, Result, io::Error, the two name wrappers.               *)
(***************************************************************************)
None == [some |-> FALSE]
Some(v) == [some |-> TRUE, v |-> v]
Flatten(o) == IF o.some THEN o.v ELSE None

Ok(v) == [ok |-> TRUE, val |-> v]
Err(e) == [ok |-> FALSE, err |-> e]
Unit == "()"

\* io::Error::other(payload): the kind is always Other, the payload is boxed.
IoErrorOther(inner, text) == [kind |-> "Other", inner |-> inner, text |-> text]

I32ToString(i) ==
    CASE i = 0 -> "0" [] i = 1 -> "1" [] i = 2 -> "2" [] OTHER -> "i32"

UncheckedTableName(s) == [unchecked |-> s]
CheckedTableName(s) == [checked |-> s]
as_str(table) == table.checked

NoTable == [checked |-> <<>>]
Pending == [ok |-> FALSE, err |-> IoErrorOther("", <<"pending">>)]

(***************************************************************************)
(* The database, as the code sees it through the pool.                     *)
(***************************************************************************)
\* A round trip either reaches the database or fails in the driver.
NoFault == "none"
DriverFaults == {"PoolTimedOut"}
AnyFault == {NoFault} \cup DriverFaults
\* The connection's search_path, a setting of the database the code never
\* reads or sets: the schemas an unqualified relation name is looked up in,
\* in order.  "public" alone is PostgreSQL's default.
SearchPaths == {<<"public">>, <<"public", "other">>, <<"other", "public">>}

\* SELECT 1::INTEGER AS one FROM information_schema.tables
\* WHERE table_schema = $1 AND table_name = $2: one row per matching table,
\* each holding the (nullable) integer 1.
ExistsRows(cat, s, n) == [k \in 1..cat[<<s, n>>] |-> Some(1)]

\* fetch_optional: the first row, or None; further rows are not looked at.
FetchOptional(rows) == IF rows = <<>> THEN None ELSE Some(rows[1])

\* The schema an unqualified relation name resolves to: the first schema of
\* the search path that holds a relation of that name ("" when none does).
NoSchema == ""
Resolve(cat, path, n) ==
    LET hits == {k \in 1..Len(path) : <<path[k], n>> \in Cells /\ cat[<<path[k], n>>] >= 1}
    IN IF hits = {} THEN NoSchema
       ELSE path[CHOOSE k \in hits : \A j \in hits : k <= j]

\* The relation a statement "ANALYZE <relation>" names.
Relation(stmt) == SubSeq(stmt, 2, Len(stmt))

\* execute(): the statement's text is all the database is given.
Execute(cat, path, stmt, fault) ==
    IF fault # NoFault THEN Err(fault)
    ELSE IF /\ Len(stmt) >= 2
            /\ stmt[1] = "ANALYZE "
            /\ Resolve(cat, path, Relation(stmt)) # NoSchema
         THEN Ok(Unit)
         ELSE Err("UndefinedTable")

(***************************************************************************)
(* The code.                                                               *)
(***************************************************************************)
\* Mutant of table_exists: no row is taken for a match.
table_exists_NoneIsTrue(cat, s, n, fault) ==
    IF fault # NoFault
    THEN Err(IoErrorOther("sqlx::Error", <<fault>>))
    ELSE LET oi == Flatten(FetchOptional(ExistsRows(cat, s, n)))
         IN IF oi.some /\ oi # Some(1)
            THEN Err(IoErrorOther("String",
                        <<"unexpected value got: ", I32ToString(oi.v)>>))
            ELSE Ok(TRUE)

\* PgTabChk::table_exists
table_exists(cat, s, n, fault) ==
    LET q == IF fault # NoFault
             THEN Err(IoErrorOther("sqlx::Error", <<fault>>))
             ELSE Ok(Flatten(FetchOptional(ExistsRows(cat, s, n))))
    IN IF ~q.ok THEN q
       ELSE LET oi == q.val
            IN CASE oi = Some(1) -> Ok(TRUE)
                 [] oi.some /\ oi # Some(1) ->
                        Err(IoErrorOther("String",
                                <<"unexpected value got: ", I32ToString(oi.v)>>))
                 [] OTHER -> Ok(FALSE)

\* Mutant of CheckFound: the `if !found` rejection is missing.
CheckFound_NoReject(found, unchecked) ==
    IF ~found.ok THEN found ELSE Ok(CheckedTableName(unchecked.unchecked))

\* Mutant of CheckFound: the checked name is the input quoted as an identifier.
CheckFound_Quoted(found, unchecked) ==
    IF ~found.ok THEN found
    ELSE IF ~found.val
         THEN Err(IoErrorOther("String",
                     <<"the table ">> \o unchecked.unchecked \o <<" not found">>))
         ELSE Ok(CheckedTableName(<<"\"">> \o unchecked.unchecked \o <<"\"">>))

\* Mutant of CheckFound: an error of table_exists is taken for `false`
\* (unwrap_or(false) in place of `?`).
CheckFound_ErrIsFalse(found, unchecked) ==
    IF ~found.ok \/ ~found.val
    THEN Err(IoErrorOther("String",
                <<"the table ">> \o unchecked.unchecked \o <<" not found">>))
    ELSE Ok(CheckedTableName(unchecked.unchecked))

\* TableNameChecker::check_table_name, given the answer of table_exists
CheckFound(found, unchecked) ==
    LET raw_name == unchecked.unchecked
    IN IF ~found.ok THEN found
       ELSE IF ~found.val
            THEN Err(IoErrorOther("String", <<"the table ">> \o raw_name \o <<" not found">>))
            ELSE Ok(CheckedTableName(unchecked.unchecked))

check_table_name(cat, s, unchecked, fault) ==
    CheckFound(table_exists(cat, s, unchecked.unchecked, fault), unchecked)

\* Mutant of AnalyzeStatement: the name is qualified with a schema.
AnalyzeStatement_Qualified(table) == <<"ANALYZE ", "public", ".">> \o table.checked

\* format!("ANALYZE {}", table.0)
AnalyzeStatement(table) == <<"ANALYZE ">> \o table.checked

\* PgAnalyze::analyze
analyze(cat, path, table, fault) ==
    LET r == Execute(cat, path, AnalyzeStatement(table), fault)
    IN IF r.ok THEN Ok(Unit) ELSE Err(IoErrorOther("sqlx::Error", <<r.err>>))


(***************************************************************************)
(* Requests.  pc[r]: "idle" (not yet received), "check" (about to await    *)
(* check_table_name for names[r][idx[r]]), "analyze" (holding the checked  *)
(* name, about to await analyze), "done" (result[r] returned).             *)
(* calls[r] records, in order, the round trips request r has made.         *)
(***************************************************************************)
TypeOK ==
    /\ catalog \in Catalogs
    /\ search_path \in SearchPaths
    /\ pc \in [Reqs -> {"idle", "check", "analyze", "done"}]
    /\ kind \in [Reqs -> {"", "analyze_by_table_name", "analyze_tables"}]
    /\ schema \in [Reqs -> Schemas \cup {""}]
    /\ names \in [Reqs -> NameLists]
    /\ idx \in [Reqs -> 0..(MaxNames + 1)]
    /\ checked \in [Reqs -> {NoTable} \cup {CheckedTableName(n) : n \in Names}]
    /\ \A r \in Reqs : Len(calls[r]) <= 2 * MaxNames

InitRequests ==
    /\ pc = [r \in Reqs |-> "idle"]
    /\ kind = [r \in Reqs |-> ""]
    /\ schema = [r \in Reqs |-> ""]
    /\ names = [r \in Reqs |-> <<>>]
    /\ idx = [r \in Reqs |-> 0]
    /\ checked = [r \in Reqs |-> NoTable]
    /\ result = [r \in Reqs |-> Pending]
    /\ calls = [r \in Reqs |-> <<>>]

Init == catalog \in UniqueCatalogs /\ search_path \in SearchPaths /\ InitRequests

\* MutationRoot::analyze_by_table_name is called: nothing awaited yet.
analyze_by_table_name(r, s, name) ==
    /\ pc[r] = "idle"
    /\ kind' = [kind EXCEPT ![r] = "analyze_by_table_name"]
    /\ schema' = [schema EXCEPT ![r] = s]
    /\ names' = [names EXCEPT ![r] = <<name>>]
    /\ idx' = [idx EXCEPT ![r] = 1]
    /\ pc' = [pc EXCEPT ![r] = "check"]
    /\ UNCHANGED <<catalog, search_path, checked, result, calls>>

\* MutationRoot::analyze_tables is called: an empty list returns Ok(true)
\* without a round trip.
analyze_tables(r, s, ns) ==
    /\ pc[r] = "idle"
    /\ kind' = [kind EXCEPT ![r] = "analyze_tables"]
    /\ schema' = [schema EXCEPT ![r] = s]
    /\ names' = [names EXCEPT ![r] = ns]
    /\ idx' = [idx EXCEPT ![r] = 1]
    /\ IF ns = <<>>
       THEN /\ pc' = [pc EXCEPT ![r] = "done"]
            /\ result' = [result EXCEPT ![r] = Ok(TRUE)]
       ELSE /\ pc' = [pc EXCEPT ![r] = "check"]
            /\ UNCHANGED result
    /\ UNCHANGED <<catalog, search_path, checked, calls>>

\* Mutant of AfterCheck: a name that fails its check is skipped and the list
\* goes on.
AfterCheck_Skip(r, res) ==
    IF res.ok
    THEN [pc |-> "analyze", checked |-> res.val, idx |-> idx[r], result |-> result[r]]
    ELSE IF idx[r] < Len(names[r])
         THEN [pc |-> "check", checked |-> NoTable, idx |-> idx[r] + 1,
               result |-> result[r]]
         ELSE [pc |-> "done", checked |-> NoTable, idx |-> idx[r],
               result |-> Err(res.err)]

\* Mutant of AfterCheck: a failed check is answered with Ok(false).
AfterCheck_False(r, res) ==
    IF res.ok
    THEN [pc |-> "analyze", checked |-> res.val, idx |-> idx[r], result |-> result[r]]
    ELSE [pc |-> "done", checked |-> NoTable, idx |-> idx[r], result |-> Ok(FALSE)]

\* The `?` after check_table_name: an error returns it, a checked name goes on.
AfterCheck(r, res) ==
    IF res.ok
    THEN [pc |-> "analyze", checked |-> res.val, idx |-> idx[r], result |-> result[r]]
    ELSE [pc |-> "done", checked |-> NoTable, idx |-> idx[r], result |-> Err(res.err)]

\* The `?` after analyze: an error returns it; otherwise the next name of the
\* list, or Ok(true) after the last one.
AfterAnalyze(r, res) ==
    IF ~res.ok
    THEN [pc |-> "done", idx |-> idx[r], result |-> Err(res.err)]
    ELSE IF idx[r] < Len(names[r])
         THEN [pc |-> "check", idx |-> idx[r] + 1, result |-> result[r]]
         ELSE [pc |-> "done", idx |-> idx[r], result |-> Ok(TRUE)]

\* self.checker.check_table_name(&schema, unchecked).await?
CheckStep(r, fault) ==
    /\ pc[r] = "check"
    /\ LET name == names[r][idx[r]]
           unchecked == UncheckedTableName(name)
           found == table_exists(catalog, schema[r], name, fault)
           res == check_table_name(catalog, schema[r], unchecked, fault)
       IN /\ calls' = [calls EXCEPT ![r] = Append(@,
                          [op |-> "check", schema |-> schema[r], name |-> name,
                           rows |-> catalog[<<schema[r], name>>],
                           found |-> found, res |-> res])]
          /\ pc' = [pc EXCEPT ![r] = AfterCheck(r, res).pc]
          /\ checked' = [checked EXCEPT ![r] = AfterCheck(r, res).checked]
          /\ idx' = [idx EXCEPT ![r] = AfterCheck(r, res).idx]
          /\ result' = [result EXCEPT ![r] = AfterCheck(r, res).result]
    /\ UNCHANGED <<catalog, search_path, kind, schema, names>>

\* self.az.analyze(&checked).await? and what follows it: Ok(true), or the
\* next name of the list.
AnalyzeStep(r, fault) ==
    /\ pc[r] = "analyze"
    /\ LET table == checked[r]
           res == analyze(catalog, search_path, table, fault)
       IN /\ calls' = [calls EXCEPT ![r] = Append(@,
                          [op |-> "analyze", schema |-> schema[r],
                           name |-> as_str(table),
                           rows |-> catalog[<<schema[r], names[r][idx[r]]>>],
                           stmt |-> AnalyzeStatement(table),
                           target |-> Resolve(catalog, search_path,
                                              Relation(AnalyzeStatement(table))),
                           res |-> res])]
          /\ pc' = [pc EXCEPT ![r] = AfterAnalyze(r, res).pc]
          /\ idx' = [idx EXCEPT ![r] = AfterAnalyze(r, res).idx]
          /\ result' = [result EXCEPT ![r] = AfterAnalyze(r, res).result]
    /\ checked' = [checked EXCEPT ![r] = NoTable]
    /\ UNCHANGED <<catalog, search_path, kind, schema, names>>

\* A concurrent actor of the database creates or drops a table.
CreateTable(s, n) ==
    /\ catalog[<<s, n>>] = 0
    /\ catalog' = [catalog EXCEPT ![<<s, n>>] = 1]
    /\ UNCHANGED <<search_path, pc, kind, schema, names, idx, checked, result, calls>>

DropTable(s, n) ==
    /\ catalog[<<s, n>>] >= 1
    /\ catalog' = [catalog EXCEPT ![<<s, n>>] = 0]
    /\ UNCHANGED <<search_path, pc, kind, schema, names, idx, checked, result, calls>>

\* One request in flight, any list of names, a database whose catalog
\* changes under the request and whose round trips may fail.
Next ==
    \/ \E r \in SoloReqs, s \in Schemas, n \in Names : analyze_by_table_name(r, s, n)
    \/ \E r \in SoloReqs, s \in Schemas, ns \in NameLists : analyze_tables(r, s, ns)
    \/ \E r \in SoloReqs, f \in AnyFault : CheckStep(r, f)
    \/ \E r \in SoloReqs, f \in AnyFault : AnalyzeStep(r, f)
    \/ \E s \in Schemas, n \in Names : CreateTable(s, n)
    \/ \E s \in Schemas, n \in Names : DropTable(s, n)

Spec == Init /\ [][Next]_vars

\* NumReqs concurrent analyze_by_table_name calls, interleaved at every await,
\* against a catalog that does not change and a database that answers.
InitConc == catalog \in UniqueCatalogs /\ search_path \in SearchPaths /\ InitRequests

NextConc ==
    \/ \E r \in Reqs, s \in Schemas, n \in Names : analyze_by_table_name(r, s, n)
    \/ \E r \in Reqs : CheckStep(r, NoFault)
    \/ \E r \in Reqs : AnalyzeStep(r, NoFault)

SpecConc == InitConc /\ [][NextConc]_vars

\* One request against a metadata view that may hold several rows for one
\* (table_schema, table_name); the catalog does not change.
InitDup == catalog \in Catalogs /\ search_path \in SearchPaths /\ InitRequests

NextDup ==
    \/ \E r \in SoloReqs, s \in Schemas, n \in Names : analyze_by_table_name(r, s, n)
    \/ \E r \in SoloReqs, s \in Schemas, ns \in NameLists : analyze_tables(r, s, ns)
    \/ \E r \in SoloReqs : CheckStep(r, NoFault)
    \/ \E r \in SoloReqs : AnalyzeStep(r, NoFault)

SpecDup == InitDup /\ [][NextDup]_vars

(***************************************************************************)
(* The claims.                                                             *)
(***************************************************************************)
\* The error the validation path gives for a name that is not in the schema.
ExpectedNotFound(n) ==
    [ok |-> FALSE,
     err |-> [kind |-> "Other", inner |-> "String",
              text |-> <<"the table ">> \o n \o <<" not found">>]]

Last(r) == calls[r][Len(calls[r])]

\* C1: when the Catalog Inspector reports non-existence for a name, validation
\* fails with the NotFound error, the request returns that error, and no
\* ANALYZE is issued for the name: the failed check is the request's last round
\* trip (its only one, for analyze_by_table_name).
C1_NotFoundNoAnalyze ==
    \A r \in Reqs : \A i \in 1..Len(calls[r]) :
        LET e == calls[r][i]
        IN (e.op = "check" /\ e.found = Ok(FALSE)) =>
              /\ e.res = ExpectedNotFound(e.name)
              /\ i = Len(calls[r])
              /\ pc[r] = "done"
              /\ result[r] = ExpectedNotFound(e.name)
              /\ (kind[r] = "analyze_by_table_name" => Len(calls[r]) = 1)

C1_Witness ==
    \E r \in Reqs :
        /\ kind[r] = "analyze_tables"
        /\ Len(calls[r]) = 3
        /\ calls[r][2].op = "analyze"
        /\ calls[r][3].op = "check"
        /\ calls[r][3].found = Ok(FALSE)

\* C2: every ANALYZE the Executor has issued names a text for which the check
\* just before it, in the same request and the request's schema, succeeded with
\* the Catalog Inspector finding the table; and the checked name a request
\* holds is always the one its last check returned.
C2_AnalyzeOnlyChecked ==
    \A r \in Reqs :
        /\ \A i \in 1..Len(calls[r]) :
              LET e == calls[r][i]
              IN e.op = "analyze" =>
                    /\ i > 1
                    /\ calls[r][i - 1].op = "check"
                    /\ calls[r][i - 1].res.ok
                    /\ calls[r][i - 1].found = Ok(TRUE)
                    /\ calls[r][i - 1].rows >= 1
                    /\ calls[r][i - 1].schema = schema[r]
                    /\ calls[r][i - 1].name = e.name
                    /\ e.stmt = <<"ANALYZE ">> \o calls[r][i - 1].name
        /\ pc[r] = "analyze" =>
              /\ Len(calls[r]) >= 1
              /\ Last(r).op = "check"
              /\ Last(r).res.ok
              /\ Last(r).rows >= 1
              /\ checked[r] = [checked |-> Last(r).name]
        /\ pc[r] # "analyze" => checked[r] = NoTable

C2_Witness ==
    \E r \in Reqs :
        /\ kind[r] = "analyze_tables"
        /\ Len(calls[r]) = 4
        /\ calls[r][2].op = "analyze"
        /\ calls[r][4].op = "analyze"
        /\ calls[r][2].name # calls[r][4].name

\* C3: when the Catalog Inspector reports existence, validation succeeds and
\* the checked name's text is the unchecked input, unchanged.
C3_CheckedIsVerbatim ==
    \A r \in Reqs : \A i \in 1..Len(calls[r]) :
        LET e == calls[r][i]
        IN (e.op = "check" /\ e.found = Ok(TRUE)) =>
              /\ e.res.ok
              /\ e.res.val = [checked |-> names[r][(i + 1) \div 2]]
              /\ (i = Len(calls[r]) =>
                     /\ pc[r] = "analyze"
                     /\ as_str(checked[r]) = names[r][idx[r]])

C3_Witness ==
    \E r \in Reqs :
        /\ pc[r] = "analyze"
        /\ Last(r).op = "check"
        /\ Last(r).found = Ok(TRUE)
        /\ as_str(checked[r]) = <<"t2">>

\* C4 (state part): a call's round trips are check(names[1]), analyze(names[1]),
\* check(names[2]), ... in list order, one at a time; only the last one made
\* can have failed; a failed one ends the call with its error, and a call that
\* has returned makes no further round trip.
C4_OrderSoFar ==
    \A r \in Reqs :
        LET n == Len(calls[r])
        IN /\ n <= 2 * Len(names[r])
           /\ \A i \in 1..n :
                 /\ (i % 2 = 1 => /\ calls[r][i].op = "check"
                                  /\ calls[r][i].name = names[r][(i + 1) \div 2])
                 /\ (i % 2 = 0 => /\ calls[r][i].op = "analyze"
                                  /\ calls[r][i].name = names[r][i \div 2])
                 /\ (i < n => calls[r][i].res.ok)
           /\ (pc[r] = "check" => n = 2 * (idx[r] - 1))
           /\ (pc[r] = "analyze" => n = 2 * idx[r] - 1)
           /\ (pc[r] = "done" =>
                 IF n > 0 /\ ~calls[r][n].res.ok
                 THEN result[r] = Err(calls[r][n].res.err)
                 ELSE n = 2 * Len(names[r]) /\ result[r] = Ok(TRUE))

\* C4: in every reachable state the round trips made so far are in list order
\* with nothing after the first failure, and no step changes the record or the
\* result of a call that has returned.
C4_BatchInOrder ==
    /\ []C4_OrderSoFar
    /\ [][\A r \in Reqs : pc[r] = "done" =>
              (pc'[r] = "done" /\ calls'[r] = calls[r] /\ result'[r] = result[r])]_vars

C4_Witness ==
    \E r \in Reqs :
        /\ kind[r] = "analyze_tables"
        /\ Len(names[r]) = 3
        /\ pc[r] = "done"
        /\ Len(calls[r]) = 3
        /\ calls[r][2].res.ok
        /\ calls[r][3].found = Ok(FALSE)
        /\ ~result[r].ok

\* C5: a metadata lookup that matches more than one row makes the Catalog
\* Inspector return an error, and validation fail with an error that is not
\* NotFound; such a name is never reported as existing.
C5_MultipleRowsIsError ==
    \A r \in Reqs : \A i \in 1..Len(calls[r]) :
        LET e == calls[r][i]
        IN (e.op = "check" /\ e.rows > 1) =>
              /\ ~e.found.ok
              /\ ~e.res.ok
              /\ e.res # ExpectedNotFound(e.name)

\* C6: an error of the Catalog Inspector is what check_table_name fails with,
\* unchanged and not the NotFound error; the request returns it, and the failed
\* lookup is the request's last round trip (no ANALYZE, no retry).
C6_InspectorErrorSurfaced ==
    \A r \in Reqs : \A i \in 1..Len(calls[r]) :
        LET e == calls[r][i]
        IN (e.op = "check" /\ ~e.found.ok) =>
              /\ e.res = e.found
              /\ e.res # ExpectedNotFound(e.name)
              /\ i = Len(calls[r])
              /\ pc[r] = "done"
              /\ result[r] = e.found

C6_Witness ==
    \E r \in Reqs :
        /\ pc[r] = "done"
        /\ Len(calls[r]) = 3
        /\ Last(r).op = "check"
        /\ ~Last(r).found.ok
        /\ Last(r).rows = 1

\* C7: analyze_by_table_name returns Ok(true) exactly when its check and then
\* its ANALYZE both succeeded; otherwise it returns the error of the step that
\* failed.  It never returns Ok(false).
C7_TrueOrError ==
    \A r \in Reqs :
        (kind[r] = "analyze_by_table_name" /\ pc[r] = "done") =>
            /\ result[r] # Ok(FALSE)
            /\ (result[r] = Ok(TRUE)) <=>
                   (/\ Len(calls[r]) = 2
                    /\ calls[r][1].res.ok
                    /\ calls[r][2].res.ok)
            /\ (result[r] # Ok(TRUE) =>
                   /\ Len(calls[r]) >= 1
                   /\ ~Last(r).res.ok
                   /\ result[r] = Err(Last(r).res.err))

C7_Witness ==
    \E r \in Reqs :
        /\ kind[r] = "analyze_by_table_name"
        /\ pc[r] = "done"
        /\ result[r] = Ok(TRUE)

\* C8: concurrent analyze_by_table_name calls against pairwise distinct
\* existing tables, the catalog unchanging, all return Ok(true), each having
\* issued exactly one ANALYZE, naming its own table.
C8_ConcurrentAllSucceed ==
    (/\ \A r \in Reqs : pc[r] = "done"
     /\ \A r \in Reqs : catalog[<<schema[r], names[r][1]>>] >= 1
     /\ \A r1, r2 \in Reqs :
           r1 # r2 => <<schema[r1], names[r1]>> # <<schema[r2], names[r2]>>)
    => \A r \in Reqs :
           /\ result[r] = Ok(TRUE)
           /\ Len(calls[r]) = 2
           /\ calls[r][2].op = "analyze"
           /\ calls[r][2].stmt = <<"ANALYZE ">> \o names[r][1]
           /\ calls[r][2].target = schema[r]

\* C9: a table that exists when it is validated and is gone from its schema when
\* the ANALYZE runs makes the call fail with the database's error, which is not
\* the NotFound error; the call does not succeed.
C9_DroppedIsInfraError ==
    \A r \in Reqs : \A i \in 2..Len(calls[r]) :
        LET e == calls[r][i]
        IN (/\ e.op = "analyze"
            /\ calls[r][i - 1].rows >= 1
            /\ e.rows = 0) =>
              /\ ~e.res.ok
              /\ e.res.err.inner = "sqlx::Error"
              /\ e.res # ExpectedNotFound(e.name)
              /\ pc[r] = "done"
              /\ result[r] = Err(e.res.err)

\* C10: the statement issued for a checked name is "ANALYZE " followed by the
\* name and nothing else: no schema occurs in it, so requests that validated
\* the same name in different schemas issue the same statement.
C10_StatementIgnoresSchema ==
    \A r1, r2 \in Reqs : \A i1 \in 1..Len(calls[r1]), i2 \in 1..Len(calls[r2]) :
        (calls[r1][i1].op = "analyze" /\ calls[r2][i2].op = "analyze") =>
            /\ calls[r1][i1].stmt = <<"ANALYZE ">> \o names[r1][i1 \div 2]
            /\ \A k \in 1..Len(calls[r1][i1].stmt) : calls[r1][i1].stmt[k] \notin Schemas
            /\ (calls[r1][i1].name = calls[r2][i2].name =>
                   calls[r1][i1].stmt = calls[r2][i2].stmt)

C10_Witness ==
    \E r1, r2 \in Reqs :
        /\ schema[r1] # schema[r2]
        /\ Len(calls[r1]) = 2
        /\ Len(calls[r2]) = 2
        /\ calls[r1][2].name = calls[r2][2].name
        /\ calls[r1][2].stmt = calls[r2][2].stmt

====
